---- MODULE Spec2Model ----
(***************************************************************************)
(* Model of src/fut.cpp: SharedState<T>, MyFuture<T> and MyPromise<T>.     *)
(*                                                                         *)
(* A SharedState is a mutex, a condition variable, an optional value, an   *)
(* exception_ptr and a ready flag.  Threads run the member functions; a    *)
(* call into a SharedState is cut where the code can block: at the mutex   *)
(* acquisition and inside cv_.wait.  Everything a member function does     *)
(* while it holds the mutex is one step.  Operations that touch only a     *)
(* handle (moves, get_future, valid) are one step.                         *)
(***************************************************************************)
EXTENDS Integers, Sequences, FiniteSets, TLC

\* ------------------------------------------------------------------ bounds
MaxStates   == 2   \* SharedState objects that may be allocated
MaxVal      == 2   \* payload values are 1..MaxVal
MaxCalls    == 3   \* calls started in one behaviour

\* Threads and handle objects, in the order in which they are taken into use.
ThreadOrder  == << "t1", "t2", "t3" >>
PromiseOrder == << "p1", "p2" >>
FutureOrder  == << "f1", "f2" >>
Range(seq) == { seq[i] : i \in 1 .. Len(seq) }
Threads  == Range(ThreadOrder)
Promises == Range(PromiseOrder)
Futures  == Range(FutureOrder)
States   == 1 .. MaxStates
Values   == 1 .. MaxVal

\* A shared_ptr that holds nothing.
NoState == 0
\* The mutex owner when the mutex is free.
NoThread == "none"

\* --------------------------------------------------- exceptions and options
\* A null std::exception_ptr.
NullPtr == "nullptr"
\* Payloads a caller hands to set_exception: an exception object, or nothing.
UserErrors == {"boom"}
ExceptionArgs == UserErrors \cup {NullPtr}

\* what() of the std::runtime_error objects the code constructs.
ErrAlreadySatisfied   == "Promise already satisfied"
ErrInternal           == "Internal error: shared state ready but no value or exception"
ErrFutureNoState      == "Future has no associated state"
ErrRetrievedOrNoState == "Future already retrieved or no state"
ErrPromiseNoState     == "Promise has no state"
ErrBrokenPromise      == "Broken promise"

\* std::optional<T>: the empty sequence, or a one-element sequence.
nullopt == << >>
Some(v) == << v >>

\* How a call ended.
RVoid      == [kind |-> "void",   val |-> nullopt, err |-> "", flag |-> FALSE]
RValue(v)  == [kind |-> "value",  val |-> Some(v), err |-> "", flag |-> FALSE]
RBool(b)   == [kind |-> "bool",   val |-> nullopt, err |-> "", flag |-> b]
RThrow(e)  == [kind |-> "throw",  val |-> nullopt, err |-> e,  flag |-> FALSE]
RFuture    == [kind |-> "future", val |-> nullopt, err |-> "", flag |-> FALSE]

\* The call a thread is in: the function, who calls it, the handle it is called
\* on, the SharedState that handle holds, the arguments (the source of a move
\* in `other`), and whether the call has been suspended in cv_.wait.
Call(name, caller, handle, s, v, e) ==
  [name |-> name, caller |-> caller, handle |-> handle, s |-> s, val |-> v, exc |-> e,
   other |-> "none", blocked |-> FALSE]
MoveCall(name, p, other, s) ==
  [Call(name, "user", p, s, nullopt, NullPtr) EXCEPT !.other = other]
NoCall == Call("none", "none", "none", NoState, nullopt, NullPtr)

\* The return of a call: who returned from what with which result.  It is
\* visible in the state the return leads to, and in that state only.
Returned(t, c, r) == [thread |-> t, call |-> c, result |-> r]
NoReturn == Returned(NoThread, NoCall, RVoid)

VARIABLES
  \* SharedState members, one per object
  mutex_, cv_, value_, exception_ptr_, ready_,
  \* the number of SharedState objects make_shared has produced
  allocated,
  \* MyPromise objects: lifetime, state_, future_retrieved_
  promise_life, promise_state_, future_retrieved_,
  \* MyFuture objects: lifetime, state_
  future_life, future_state_,
  \* threads: position and current call; the return made by the last step
  pc, call, last,
  \* the number of calls started so far
  calls,
  \* history: the writes that succeeded, per state and in order, futures issued per state,
  \* states whose promise was destroyed after a future was issued and before a write,
  \* the number of get_value and wait calls that have returned, per state, promises that were the
  \* source of a move and have not been assigned to since
  \* states on which a write was refused, states on which two threads have
  \* been blocked in cv_.wait together
  writes, issued, abandoned, reads, moved_from, rejected, crowd

ss_vars == << mutex_, cv_, value_, exception_ptr_, ready_ >>
promise_vars == << allocated, promise_life, promise_state_, future_retrieved_ >>
future_vars == << future_life, future_state_ >>
thread_vars == << pc, call, last >>
hist_vars == << writes, issued, abandoned, reads, moved_from, rejected, crowd >>
vars == << ss_vars, promise_vars, future_vars, thread_vars, calls, hist_vars >>

\* ------------------------------------------------------------------- Init
\* The stages of main before its threads run: one MyPromise has been
\* default-constructed and owns a fresh SharedState; then its get_future() has
\* been called; then it has been moved into the producer's promise.
MainStages == {"constructed", "retrieved", "moved"}

Init ==
  /\ mutex_ = [s \in States |-> NoThread]
  /\ cv_ = [s \in States |-> {}]
  /\ value_ = [s \in States |-> nullopt]
  /\ exception_ptr_ = [s \in States |-> NullPtr]
  /\ ready_ = [s \in States |-> FALSE]
  /\ allocated = 1
  /\ \E stage \in MainStages :
       LET retrieved == stage # "constructed"
           holder == IF stage = "moved" THEN "p2" ELSE "p1"
       IN /\ promise_life = [p \in Promises |->
                               IF p = "p1" \/ p = holder THEN "live" ELSE "unborn"]
          /\ promise_state_ = [p \in Promises |-> IF p = holder THEN 1 ELSE NoState]
          /\ future_retrieved_ = [p \in Promises |-> promise_life[p] = "live" /\ retrieved]
          /\ moved_from = [p \in Promises |-> p = "p1" /\ stage = "moved"]
          /\ future_life = [f \in Futures |->
                             IF f = "f1" /\ retrieved THEN "live" ELSE "unborn"]
          /\ future_state_ = [f \in Futures |-> IF f = "f1" /\ retrieved THEN 1 ELSE NoState]
          /\ issued = [s \in States |-> IF s = 1 /\ retrieved THEN 1 ELSE 0]
  /\ pc = [t \in Threads |-> "idle"]
  /\ call = [t \in Threads |-> NoCall]
  /\ last = NoReturn
  /\ calls = 0
  /\ writes = [s \in States |-> << >>]
  /\ abandoned = [s \in States |-> FALSE]
  /\ reads = [s \in States |-> 0]
  /\ rejected = [s \in States |-> FALSE]
  /\ crowd = [s \in States |-> FALSE]

\* ---------------------------------------------------------------- helpers
\* x is the first element of seq that satisfies Free.
FirstFree(seq, x, Free(_)) ==
  \E i \in 1 .. Len(seq) :
    /\ seq[i] = x
    /\ Free(x)
    /\ \A j \in 1 .. (i - 1) : ~Free(seq[j])

Idle(t) == pc[t] = "idle"
UnbornPromise(p) == promise_life[p] = "unborn"
UnbornFuture(f) == future_life[f] = "unborn"

\* A thread may start a call.  The code keeps nothing per thread, so the next
\* call is run by the first idle thread, and a new object is the first unused one.
CanStart(t) == FirstFree(ThreadOrder, t, Idle) /\ calls < MaxCalls
NewPromise(p) == FirstFree(PromiseOrder, p, UnbornPromise)
NewFuture(f) == FirstFree(FutureOrder, f, UnbornFuture)

\* Some thread is inside a member function of promise p.
PromiseInUse(p) == \E t \in Threads : pc[t] # "idle" /\ call[t].handle = p

\* A promise object other threads may modify: it is alive and nobody is in it.
PromiseQuiet(p) == promise_life[p] = "live" /\ ~PromiseInUse(p)

\* Thread t calls a SharedState member function: its first statement takes the
\* mutex, at once when it is free; otherwise the thread blocks on it.
Enter(t, c) ==
  /\ IF mutex_[c.s] = NoThread
     THEN /\ mutex_' = [mutex_ EXCEPT ![c.s] = t]
          /\ pc' = [pc EXCEPT ![t] = "cs"]
     ELSE /\ pc' = [pc EXCEPT ![t] = "lock"]
          /\ UNCHANGED mutex_
  /\ call' = [call EXCEPT ![t] = c]
  /\ last' = NoReturn

\* The same inside a step in which t itself has just released that mutex:
\* any thread may take it first.
EnterAfterUnlock(t, c) ==
  /\ pc' = [pc EXCEPT ![t] = "lock"]
  /\ call' = [call EXCEPT ![t] = c]
  /\ last' = NoReturn

Finish(t, c, r) ==
  /\ pc' = [pc EXCEPT ![t] = "idle"]
  /\ call' = [call EXCEPT ![t] = NoCall]
  /\ last' = Returned(t, c, r)

\* The end of ~MyPromise: the object is gone and its shared_ptr released.
DtorEnd(t) ==
  /\ promise_life' = [promise_life EXCEPT ![call[t].handle] = "dead"]
  /\ promise_state_' = [promise_state_ EXCEPT ![call[t].handle] = NoState]
  /\ Finish(t, [call[t] EXCEPT !.name = "~MyPromise"], RVoid)
  /\ UNCHANGED future_retrieved_

\* A destructor that does not look at state_->is_ready().
DtorIgnoresIsReady(t, is_ready_result) ==
  IF future_retrieved_[call[t].handle]
  THEN /\ EnterAfterUnlock(t, Call("set_exception", "dtor", call[t].handle, call[t].s,
                                   nullopt, ErrBrokenPromise))
       /\ UNCHANGED << promise_life, promise_state_, future_retrieved_ >>
  ELSE DtorEnd(t)

\* ~MyPromise once state_->is_ready() has returned: the rest of the condition
\* of the if, and the call of set_exception when it holds.
DtorAfterIsReady(t, is_ready_result) ==
  IF ~is_ready_result /\ future_retrieved_[call[t].handle]
  THEN /\ EnterAfterUnlock(t, Call("set_exception", "dtor", call[t].handle, call[t].s,
                                   nullopt, ErrBrokenPromise))
       /\ UNCHANGED << promise_life, promise_state_, future_retrieved_ >>
  ELSE DtorEnd(t)

\* A SharedState member function returns (or throws) r to its caller.
Return(t, r) ==
  CASE call[t].caller = "dtor" /\ call[t].name = "is_ready" ->
         DtorAfterIsReady(t, r.flag)
    [] call[t].caller = "dtor" /\ call[t].name # "is_ready" ->
         DtorEnd(t)
    [] OTHER ->
         /\ Finish(t, call[t], r)
         /\ UNCHANGED << promise_life, promise_state_, future_retrieved_ >>

\* -------------------------------------------------------------- SharedState
\* std::unique_lock / std::lock_guard constructor: blocks until the mutex is free.
Lock(t) ==
  /\ pc[t] = "lock"
  /\ mutex_[call[t].s] = NoThread
  /\ mutex_' = [mutex_ EXCEPT ![call[t].s] = t]
  /\ pc' = [pc EXCEPT ![t] = "cs"]
  /\ last' = NoReturn
  /\ UNCHANGED << cv_, value_, exception_ptr_, ready_, promise_vars, future_vars,
                  call, calls, hist_vars >>

\* The lock object goes out of scope.
Unlock(s) == mutex_' = [mutex_ EXCEPT ![s] = NoThread]

\* A setter that forgets the notification.
notify_nobody(s) == { {} }

\* cv_.notify_one(): the sets of waiters it may release (one waiter if any waits).
notify_one(s) == IF cv_[s] = {} THEN { {} } ELSE { {w} : w \in cv_[s] }

\* The write of both setters once ready_ was found false.
Satisfy(t, s, v, e) ==
  /\ value_' = [value_ EXCEPT ![s] = v]
  /\ exception_ptr_' = [exception_ptr_ EXCEPT ![s] = e]
  /\ ready_' = [ready_ EXCEPT ![s] = TRUE]
  /\ \E woken \in notify_one(s) : cv_' = [cv_ EXCEPT ![s] = cv_[s] \ woken]
  /\ writes' = [writes EXCEPT ![s] = Append(@, call[t])]
  /\ Unlock(s)
  /\ Return(t, RVoid)
  /\ UNCHANGED rejected

\* A setter that returns normally when ready_ was found true.
AlreadyIgnored(t, s) ==
  /\ Unlock(s)
  /\ Return(t, RVoid)
  /\ rejected' = [rejected EXCEPT ![s] = TRUE]
  /\ UNCHANGED << cv_, value_, exception_ptr_, ready_, writes >>

\* The throw of both setters when ready_ was found true.
AlreadySatisfied(t, s) ==
  /\ Unlock(s)
  /\ Return(t, RThrow(ErrAlreadySatisfied))
  /\ rejected' = [rejected EXCEPT ![s] = TRUE]
  /\ UNCHANGED << cv_, value_, exception_ptr_, ready_, writes >>

\* set_value without the test of ready_.
set_value_unchecked(t) ==
  /\ pc[t] = "cs"
  /\ call[t].name = "set_value"
  /\ Satisfy(t, call[t].s, call[t].val, exception_ptr_[call[t].s])
  /\ UNCHANGED << allocated, future_vars, calls, issued, abandoned, reads, moved_from, crowd >>

SharedState_set_value(t) ==
  /\ pc[t] = "cs"
  /\ call[t].name = "set_value"
  /\ LET s == call[t].s IN
       IF ready_[s]
       THEN AlreadySatisfied(t, s)
       ELSE Satisfy(t, s, call[t].val, exception_ptr_[s])
  /\ UNCHANGED << allocated, future_vars, calls, issued, abandoned, reads, moved_from, crowd >>

\* set_exception without the test of ready_.
set_exception_unchecked(t) ==
  /\ pc[t] = "cs"
  /\ call[t].name = "set_exception"
  /\ Satisfy(t, call[t].s, value_[call[t].s], call[t].exc)
  /\ UNCHANGED << allocated, future_vars, calls, issued, abandoned, reads, moved_from, crowd >>

SharedState_set_exception(t) ==
  /\ pc[t] = "cs"
  /\ call[t].name = "set_exception"
  /\ LET s == call[t].s IN
       IF ready_[s]
       THEN AlreadySatisfied(t, s)
       ELSE Satisfy(t, s, value_[s], call[t].exc)
  /\ UNCHANGED << allocated, future_vars, calls, issued, abandoned, reads, moved_from, crowd >>

\* A wait that suspends the thread without releasing the mutex.
cv_wait_holding(t, s) ==
  /\ cv_' = [cv_ EXCEPT ![s] = cv_[s] \cup {t}]
  /\ UNCHANGED mutex_
  /\ pc' = [pc EXCEPT ![t] = "wait"]
  /\ last' = NoReturn
  /\ call' = [call EXCEPT ![t].blocked = TRUE]
  /\ crowd' = [crowd EXCEPT ![s] = @ \/ cv_[s] \ {t} # {}]
  /\ UNCHANGED << value_, exception_ptr_, ready_, promise_vars, future_vars,
                  writes, issued, abandoned, reads, moved_from, rejected >>

\* cv_.wait(lock, pred) with pred false: the mutex is released and the thread
\* joins the waiters, in one atomic step.
cv_wait(t, s) ==
  /\ cv_' = [cv_ EXCEPT ![s] = cv_[s] \cup {t}]
  /\ Unlock(s)
  /\ pc' = [pc EXCEPT ![t] = "wait"]
  /\ last' = NoReturn
  /\ call' = [call EXCEPT ![t].blocked = TRUE]
  /\ crowd' = [crowd EXCEPT ![s] = @ \/ cv_[s] \ {t} # {}]
  /\ UNCHANGED << value_, exception_ptr_, ready_, promise_vars, future_vars,
                  writes, issued, abandoned, reads, moved_from, rejected >>

\* get that invalidates the future, as std::future::get does.
get_return_reset(t) ==
  /\ future_state_' = [future_state_ EXCEPT ![call[t].handle] = NoState]
  /\ UNCHANGED future_life

\* MyFuture::get after state_->get_value() has returned: the future keeps its
\* state (the reset is commented out).
MyFuture_get_return(t) == UNCHANGED future_vars

\* What get_value does after the wait, from the members it then reads.
get_value_result(s) ==
  IF exception_ptr_[s] # NullPtr THEN RThrow(exception_ptr_[s])
  ELSE IF value_[s] # nullopt THEN RValue(value_[s][1])
  ELSE RThrow(ErrInternal)

SharedState_get_value(t) ==
  /\ pc[t] = "cs"
  /\ call[t].name = "get_value"
  /\ LET s == call[t].s IN
       IF ~ready_[s]
       THEN cv_wait(t, s)
       ELSE /\ Unlock(s)
            /\ Return(t, get_value_result(s))
            /\ MyFuture_get_return(t)
            /\ reads' = [reads EXCEPT ![s] = @ + 1]
            /\ UNCHANGED << cv_, value_, exception_ptr_, ready_, allocated,
                            writes, issued, abandoned, moved_from, rejected, crowd >>
  /\ UNCHANGED calls

\* An is_ready that waits for readiness, as wait does.
is_ready_blocking(t) ==
  /\ pc[t] = "cs"
  /\ call[t].name = "is_ready"
  /\ LET s == call[t].s IN
       IF ~ready_[s]
       THEN cv_wait(t, s)
       ELSE /\ Unlock(s)
            /\ Return(t, RBool(TRUE))
            /\ UNCHANGED << cv_, value_, exception_ptr_, ready_, allocated, future_vars,
                            writes, issued, abandoned, reads, moved_from, rejected, crowd >>
  /\ UNCHANGED calls

SharedState_is_ready(t) ==
  /\ pc[t] = "cs"
  /\ call[t].name = "is_ready"
  /\ Unlock(call[t].s)
  /\ Return(t, RBool(ready_[call[t].s]))
  /\ UNCHANGED << cv_, value_, exception_ptr_, ready_, allocated, future_vars,
                  calls, writes, issued, abandoned, reads, moved_from, rejected, crowd >>

\* wait with cv_.wait(lock) in place of cv_.wait(lock, pred): any wake-up ends it.
wait_without_predicate(t) ==
  /\ pc[t] = "cs"
  /\ call[t].name = "wait"
  /\ LET s == call[t].s IN
       IF ~ready_[s] /\ ~call[t].blocked
       THEN cv_wait(t, s)
       ELSE /\ Unlock(s)
            /\ Return(t, RVoid)
            /\ reads' = [reads EXCEPT ![s] = @ + 1]
            /\ UNCHANGED << cv_, value_, exception_ptr_, ready_, allocated, future_vars,
                            writes, issued, abandoned, moved_from, rejected, crowd >>
  /\ UNCHANGED calls

SharedState_wait(t) ==
  /\ pc[t] = "cs"
  /\ call[t].name = "wait"
  /\ LET s == call[t].s IN
       IF ~ready_[s]
       THEN cv_wait(t, s)
       ELSE /\ Unlock(s)
            /\ Return(t, RVoid)
            /\ reads' = [reads EXCEPT ![s] = @ + 1]
            /\ UNCHANGED << cv_, value_, exception_ptr_, ready_, allocated, future_vars,
                            writes, issued, abandoned, moved_from, rejected, crowd >>
  /\ UNCHANGED calls

\* A waiter that notify_one released (or that woke spuriously) takes the mutex
\* again inside cv_.wait and evaluates the predicate once more.
Wake(t) ==
  /\ pc[t] = "wait"
  /\ t \notin cv_[call[t].s]
  /\ mutex_[call[t].s] = NoThread
  /\ mutex_' = [mutex_ EXCEPT ![call[t].s] = t]
  /\ pc' = [pc EXCEPT ![t] = "cs"]
  /\ last' = NoReturn
  /\ UNCHANGED << cv_, value_, exception_ptr_, ready_, promise_vars, future_vars,
                  call, calls, hist_vars >>

\* std::condition_variable::wait may return without a notification.
SpuriousWakeup(t) ==
  /\ pc[t] = "wait"
  /\ t \in cv_[call[t].s]
  /\ cv_' = [cv_ EXCEPT ![call[t].s] = cv_[call[t].s] \ {t}]
  /\ last' = NoReturn
  /\ UNCHANGED << mutex_, value_, exception_ptr_, ready_, promise_vars, future_vars,
                  pc, call, calls, hist_vars >>

\* ---------------------------------------------------------------- MyPromise
\* Handle-only operations leave every SharedState and every thread but t alone.
SharedStateData == << cv_, value_, exception_ptr_, ready_ >>
HandleOnly == UNCHANGED << SharedStateData, writes, reads, rejected, crowd >>

\* MyPromise(): make_shared of a fresh SharedState, future_retrieved_ false.
MyPromise_ctor(t, p) ==
  /\ CanStart(t)
  /\ NewPromise(p)
  /\ allocated < MaxStates
  /\ allocated' = allocated + 1
  /\ promise_life' = [promise_life EXCEPT ![p] = "live"]
  /\ promise_state_' = [promise_state_ EXCEPT ![p] = allocated + 1]
  /\ future_retrieved_' = [future_retrieved_ EXCEPT ![p] = FALSE]
  /\ Finish(t, Call("MyPromise", "user", p, allocated + 1, nullopt, NullPtr), RVoid)
  /\ calls' = calls + 1
  /\ HandleOnly
  /\ UNCHANGED << mutex_, abandoned >>
  /\ UNCHANGED << future_vars, issued, moved_from >>

\* A move that copies state_ and leaves the source holding it.
MoveFields_copy(p, other) ==
  /\ promise_state_' = [promise_state_ EXCEPT ![p] = promise_state_[other]]
  /\ future_retrieved_' = [future_retrieved_ EXCEPT ![p] = future_retrieved_[other],
                                                    ![other] = TRUE]
  /\ moved_from' = [moved_from EXCEPT ![p] = FALSE, ![other] = TRUE]

\* A move that does not carry future_retrieved_ over.
MoveFields_flag_lost(p, other) ==
  /\ promise_state_' = [promise_state_ EXCEPT ![p] = promise_state_[other],
                                              ![other] = NoState]
  /\ future_retrieved_' = [future_retrieved_ EXCEPT ![p] = FALSE, ![other] = TRUE]
  /\ moved_from' = [moved_from EXCEPT ![p] = FALSE, ![other] = TRUE]

\* What both moves do to the two objects: state_ is moved (the source is left
\* holding nothing), future_retrieved_ is copied and then set in the source.
MoveFields(p, other) ==
  /\ promise_state_' = [promise_state_ EXCEPT ![p] = promise_state_[other],
                                              ![other] = NoState]
  /\ future_retrieved_' = [future_retrieved_ EXCEPT ![p] = future_retrieved_[other],
                                                    ![other] = TRUE]
  /\ moved_from' = [moved_from EXCEPT ![p] = FALSE, ![other] = TRUE]

\* A constructor that shares other's state instead of taking it.
MyPromise_sharing_ctor(t, p, other) ==
  /\ CanStart(t)
  /\ NewPromise(p)
  /\ PromiseQuiet(other)
  /\ promise_life' = [promise_life EXCEPT ![p] = "live"]
  /\ MoveFields_copy(p, other)
  /\ Finish(t, MoveCall("MyPromise&&", p, other, promise_state_[other]), RVoid)
  /\ calls' = calls + 1
  /\ HandleOnly
  /\ UNCHANGED << mutex_, abandoned >>
  /\ UNCHANGED << allocated, future_vars, issued >>

\* MyPromise(MyPromise&& other)
MyPromise_move_ctor(t, p, other) ==
  /\ CanStart(t)
  /\ NewPromise(p)
  /\ PromiseQuiet(other)
  /\ promise_life' = [promise_life EXCEPT ![p] = "live"]
  /\ MoveFields(p, other)
  /\ Finish(t, MoveCall("MyPromise&&", p, other, promise_state_[other]), RVoid)
  /\ calls' = calls + 1
  /\ HandleOnly
  /\ UNCHANGED << mutex_, abandoned >>
  /\ UNCHANGED << allocated, future_vars, issued >>

\* operator=(MyPromise&& other)
MyPromise_move_assign(t, p, other) ==
  /\ CanStart(t)
  /\ PromiseQuiet(p)
  /\ PromiseQuiet(other)
  /\ IF p # other
     THEN MoveFields(p, other)
     ELSE UNCHANGED << promise_state_, future_retrieved_, moved_from >>
  /\ Finish(t, MoveCall("operator=", p, other, promise_state_[other]), RVoid)
  /\ calls' = calls + 1
  /\ HandleOnly
  /\ UNCHANGED << mutex_, abandoned >>
  /\ UNCHANGED << allocated, promise_life, future_vars, issued >>

\* The condition under which get_future throws.
get_future_refused(p) == promise_state_[p] = NoState \/ future_retrieved_[p]

\* get_future(): the returned MyFuture is stored in the fresh object f.
MyPromise_get_future(t, p, f) ==
  /\ CanStart(t)
  /\ PromiseQuiet(p)
  /\ NewFuture(f)
  /\ IF get_future_refused(p)
     THEN /\ Finish(t, Call("get_future", "user", p, promise_state_[p], nullopt, NullPtr),
                    RThrow(ErrRetrievedOrNoState))
          /\ UNCHANGED << future_retrieved_, future_vars, issued >>
     ELSE /\ future_retrieved_' = [future_retrieved_ EXCEPT ![p] = TRUE]
          /\ future_life' = [future_life EXCEPT ![f] = "live"]
          /\ future_state_' = [future_state_ EXCEPT ![f] = promise_state_[p]]
          /\ issued' = [issued EXCEPT ![promise_state_[p]] = @ + 1]
          /\ Finish(t, Call("get_future", "user", p, promise_state_[p], nullopt, NullPtr),
                    RFuture)
  /\ calls' = calls + 1
  /\ HandleOnly
  /\ UNCHANGED << mutex_, abandoned >>
  /\ UNCHANGED << allocated, promise_life, promise_state_, moved_from >>

\* The guard of MyPromise::set_value and MyPromise::set_exception, then the
\* delegation to the SharedState.
PromiseWrite(t, p, name, v, e) ==
  /\ CanStart(t)
  /\ promise_life[p] = "live"
  /\ IF promise_state_[p] = NoState
     THEN /\ Finish(t, Call(name, "promise", p, NoState, v, e), RThrow(ErrPromiseNoState))
          /\ UNCHANGED mutex_
     ELSE Enter(t, Call(name, "promise", p, promise_state_[p], v, e))
  /\ calls' = calls + 1
  /\ UNCHANGED << SharedStateData, promise_vars, future_vars, hist_vars >>

MyPromise_set_value(t, p, v) == PromiseWrite(t, p, "set_value", Some(v), NullPtr)

MyPromise_set_exception(t, p, e) == PromiseWrite(t, p, "set_exception", nullopt, e)

\* ~MyPromise(): with no state the condition is false at once; otherwise the
\* destructor calls state_->is_ready() and goes on in DtorAfterIsReady.
MyPromise_dtor(t, p) ==
  /\ CanStart(t)
  /\ PromiseQuiet(p)
  /\ IF promise_state_[p] = NoState
     THEN /\ promise_life' = [promise_life EXCEPT ![p] = "dead"]
          /\ Finish(t, Call("~MyPromise", "dtor", p, NoState, nullopt, NullPtr), RVoid)
          /\ UNCHANGED << mutex_, abandoned >>
     ELSE /\ promise_life' = [promise_life EXCEPT ![p] = "destroying"]
          /\ Enter(t, Call("is_ready", "dtor", p, promise_state_[p], nullopt, NullPtr))
          /\ abandoned' = [abandoned EXCEPT ![promise_state_[p]] =
                             @ \/ (issued[promise_state_[p]] > 0 /\ writes[promise_state_[p]] = << >>)]
  /\ calls' = calls + 1
  /\ HandleOnly
  /\ UNCHANGED << allocated, promise_state_, future_retrieved_, future_vars,
                  issued, moved_from >>

\* ----------------------------------------------------------------- MyFuture
\* MyFuture(std::shared_ptr<SharedState<T>> state) with an empty pointer.
MyFuture_ctor_null(t, f) ==
  /\ CanStart(t)
  /\ NewFuture(f)
  /\ future_life' = [future_life EXCEPT ![f] = "live"]
  /\ future_state_' = [future_state_ EXCEPT ![f] = NoState]
  /\ Finish(t, Call("MyFuture", "user", f, NoState, nullopt, NullPtr), RVoid)
  /\ calls' = calls + 1
  /\ HandleOnly
  /\ UNCHANGED << mutex_, abandoned >>
  /\ UNCHANGED << promise_vars, issued, moved_from >>

\* The implicit copy constructor: the copy shares the state.
MyFuture_copy(t, f, other) ==
  /\ CanStart(t)
  /\ NewFuture(f)
  /\ future_life[other] = "live"
  /\ future_life' = [future_life EXCEPT ![f] = "live"]
  /\ future_state_' = [future_state_ EXCEPT ![f] = future_state_[other]]
  /\ Finish(t, Call("MyFuture(const&)", "user", f, future_state_[other], nullopt, NullPtr),
            RVoid)
  /\ calls' = calls + 1
  /\ HandleOnly
  /\ UNCHANGED << mutex_, abandoned >>
  /\ UNCHANGED << promise_vars, issued, moved_from >>

\* A MyFuture whose wait returns normally when state_ is empty.
FutureNoState_quiet_wait(name) ==
  IF name = "is_ready" THEN RBool(FALSE)
  ELSE IF name = "wait" THEN RVoid
  ELSE RThrow(ErrFutureNoState)

\* Some thread is inside a member function of future f.
FutureInUse(f) == \E t \in Threads : pc[t] # "idle" /\ call[t].handle = f

\* A future object other threads may modify: it is alive and nobody is in it.
FutureQuiet(f) == future_life[f] = "live" /\ ~FutureInUse(f)

\* The implicit move constructor: the new future takes other's state_ and
\* other is left with none.
MyFuture_move_ctor(t, f, other) ==
  /\ CanStart(t)
  /\ NewFuture(f)
  /\ FutureQuiet(other)
  /\ future_life' = [future_life EXCEPT ![f] = "live"]
  /\ future_state_' = [future_state_ EXCEPT ![f] = future_state_[other], ![other] = NoState]
  /\ Finish(t, MoveCall("MyFuture(&&)", f, other, future_state_[other]), RVoid)
  /\ calls' = calls + 1
  /\ HandleOnly
  /\ UNCHANGED << mutex_, abandoned >>
  /\ UNCHANGED << promise_vars, issued, moved_from >>

\* The implicit copy assignment: f shares other's state_ from now on.
MyFuture_copy_assign(t, f, other) ==
  /\ CanStart(t)
  /\ FutureQuiet(f)
  /\ future_life[other] = "live"
  /\ future_state_' = [future_state_ EXCEPT ![f] = future_state_[other]]
  /\ Finish(t, MoveCall("MyFuture::operator=(const&)", f, other, future_state_[other]), RVoid)
  /\ calls' = calls + 1
  /\ HandleOnly
  /\ UNCHANGED << mutex_, abandoned >>
  /\ UNCHANGED << promise_vars, future_life, issued, moved_from >>

\* The implicit move assignment: f takes other's state_ and other is left with
\* none (std::shared_ptr leaves a future assigned to itself as it was).
MyFuture_move_assign(t, f, other) ==
  /\ CanStart(t)
  /\ FutureQuiet(f)
  /\ FutureQuiet(other)
  /\ IF f # other
     THEN future_state_' = [future_state_ EXCEPT ![f] = future_state_[other],
                                                 ![other] = NoState]
     ELSE UNCHANGED future_state_
  /\ Finish(t, MoveCall("MyFuture::operator=(&&)", f, other, future_state_[other]), RVoid)
  /\ calls' = calls + 1
  /\ HandleOnly
  /\ UNCHANGED << mutex_, abandoned >>
  /\ UNCHANGED << promise_vars, future_life, issued, moved_from >>

\* The implicit destructor: the future is gone and its shared_ptr released.
MyFuture_dtor(t, f) ==
  /\ CanStart(t)
  /\ FutureQuiet(f)
  /\ future_life' = [future_life EXCEPT ![f] = "dead"]
  /\ future_state_' = [future_state_ EXCEPT ![f] = NoState]
  /\ Finish(t, Call("~MyFuture", "user", f, future_state_[f], nullopt, NullPtr), RVoid)
  /\ calls' = calls + 1
  /\ HandleOnly
  /\ UNCHANGED << mutex_, abandoned >>
  /\ UNCHANGED << promise_vars, issued, moved_from >>

\* What MyFuture::get, is_ready and wait do when state_ is empty.
FutureNoState(name) ==
  IF name = "is_ready" THEN RBool(FALSE) ELSE RThrow(ErrFutureNoState)

\* The guard of MyFuture::get / is_ready / wait, then the delegation.
FutureRead(t, f, name) ==
  /\ CanStart(t)
  /\ future_life[f] = "live"
  /\ IF future_state_[f] = NoState
     THEN /\ Finish(t, Call(name, "future", f, NoState, nullopt, NullPtr),
                    FutureNoState(name))
          /\ UNCHANGED mutex_
     ELSE Enter(t, Call(name, "future", f, future_state_[f], nullopt, NullPtr))
  /\ calls' = calls + 1
  /\ UNCHANGED << SharedStateData, promise_vars, future_vars, hist_vars >>

MyFuture_get(t, f) == FutureRead(t, f, "get_value")

MyFuture_is_ready(t, f) == FutureRead(t, f, "is_ready")

MyFuture_wait(t, f) == FutureRead(t, f, "wait")

MyFuture_valid(t, f) ==
  /\ CanStart(t)
  /\ future_life[f] = "live"
  /\ Finish(t, Call("valid", "future", f, future_state_[f], nullopt, NullPtr),
            RBool(future_state_[f] # NoState))
  /\ calls' = calls + 1
  /\ UNCHANGED << ss_vars, promise_vars, future_vars, hist_vars >>

\* --------------------------------------------------------------------- Next
\* A thread that is inside a call goes on with it.
Step(t) ==
  \/ Lock(t)
  \/ SharedState_set_value(t)
  \/ SharedState_set_exception(t)
  \/ SharedState_get_value(t)
  \/ SharedState_is_ready(t)
  \/ SharedState_wait(t)
  \/ Wake(t)

\* A thread starts a call.
Start(t) ==
  \/ \E p \in Promises : MyPromise_ctor(t, p)
  \/ \E p, other \in Promises : MyPromise_move_ctor(t, p, other)
  \/ \E p, other \in Promises : MyPromise_move_assign(t, p, other)
  \/ \E p \in Promises, f \in Futures : MyPromise_get_future(t, p, f)
  \/ \E p \in Promises, v \in Values : MyPromise_set_value(t, p, v)
  \/ \E p \in Promises, e \in ExceptionArgs : MyPromise_set_exception(t, p, e)
  \/ \E p \in Promises : MyPromise_dtor(t, p)
  \/ \E f \in Futures : MyFuture_ctor_null(t, f)
  \/ \E f, other \in Futures : MyFuture_copy(t, f, other)
  \/ \E f, other \in Futures : MyFuture_move_ctor(t, f, other)
  \/ \E f, other \in Futures : MyFuture_copy_assign(t, f, other)
  \/ \E f, other \in Futures : MyFuture_move_assign(t, f, other)
  \/ \E f \in Futures : MyFuture_dtor(t, f)
  \/ \E f \in Futures : MyFuture_get(t, f)
  \/ \E f \in Futures : MyFuture_is_ready(t, f)
  \/ \E f \in Futures : MyFuture_wait(t, f)
  \/ \E f \in Futures : MyFuture_valid(t, f)

Next == \E t \in Threads : Start(t) \/ Step(t) \/ SpuriousWakeup(t)

Spec == Init /\ [][Next]_vars

\* The calls that reach a SharedState: the writes, the reads and the destructor.
StartOnState(t) ==
  \/ \E p \in Promises, v \in Values : MyPromise_set_value(t, p, v)
  \/ \E p \in Promises, e \in ExceptionArgs : MyPromise_set_exception(t, p, e)
  \/ \E p \in Promises : MyPromise_dtor(t, p)
  \/ \E f \in Futures : MyFuture_get(t, f)
  \/ \E f \in Futures : MyFuture_is_ready(t, f)
  \/ \E f \in Futures : MyFuture_wait(t, f)

NextOnState == \E t \in Threads : StartOnState(t) \/ Step(t) \/ SpuriousWakeup(t)

\* Where main starts its threads: prom.get_future() has returned and prom has
\* not been moved yet.
InitRetrieved == Init /\ issued[1] = 1 /\ ~moved_from["p1"]

\* The producer and the consumers of one SharedState under a fair scheduler:
\* every thread that can take a step of its call takes one, and a thread that
\* finds the mutex free again and again gets it in the end.
FairSpec ==
  /\ InitRetrieved
  /\ [][NextOnState]_vars
  /\ \A t \in Threads : WF_vars(Step(t)) /\ SF_vars(Lock(t)) /\ SF_vars(Wake(t))

\* ------------------------------------------------------------------- claims
\* The last step was the return of call `name` on a SharedState.
ReturnedFrom(name) == last.call.name = name /\ last.call.s # NoState

\* What the members of a SharedState hold after write c and nothing else.
ValueAfter(c) == IF c.name = "set_value" THEN c.val ELSE nullopt
ExceptionAfter(c) == IF c.name = "set_exception" THEN c.exc ELSE NullPtr

\* C1: at-most-once write.  On every SharedState at most one write succeeds;
\* a write that returns normally is that first write and any other throws
\* "Promise already satisfied"; value_, exception_ptr_ and ready_ stay as the
\* first write set them; and a get returns the first write's value, or throws
\* when the first write was a set_exception (throwing its payload if it has one).
C1_AtMostOnceWrite ==
  /\ \A s \in States :
       /\ Len(writes[s]) <= 1
       /\ rejected[s] => writes[s] # << >>
       /\ writes[s] # << >> =>
            /\ ready_[s]
            /\ value_[s] = ValueAfter(writes[s][1])
            /\ exception_ptr_[s] = ExceptionAfter(writes[s][1])
  /\ (ReturnedFrom("set_value") \/ ReturnedFrom("set_exception")) /\ last.call.caller = "promise" =>
       \/ last.result = RVoid /\ writes[last.call.s] = << last.call >>
       \/ last.result = RThrow(ErrAlreadySatisfied) /\ rejected[last.call.s]
  /\ ReturnedFrom("get_value") =>
       /\ writes[last.call.s] # << >>
       /\ LET first == writes[last.call.s][1] IN
            IF first.name = "set_value"
            THEN last.result = RValue(first.val[1])
            ELSE /\ last.result.kind = "throw"
                 /\ first.exc # NullPtr => last.result = RThrow(first.exc)

\* A get returns the first write's value after a second write was refused.
C1_Witness ==
  /\ ReturnedFrom("get_value")
  /\ rejected[last.call.s]
  /\ last.result.kind = "value"

\* Thread t is inside MyFuture::get (resp. get or wait) on SharedState s.
InGet(t, s) == pc[t] # "idle" /\ call[t].name = "get_value" /\ call[t].s = s
InRead(t, s) == pc[t] # "idle" /\ call[t].name \in {"get_value", "wait"} /\ call[t].s = s

\* The last step was the return of thread t from `name` on SharedState s.
ReturnOf(t, s, name) == last.thread = t /\ last.call.name = name /\ last.call.s = s

\* C2: abandonment liveness.  When a promise that holds SharedState s is
\* destroyed after a future was issued and before any write, every get on s,
\* blocked already or called later, returns by throwing "Broken promise".
C2_AbandonmentLiveness ==
  \A t \in Threads :
    (InGet(t, call[t].s) /\ abandoned[call[t].s])
      ~> (ReturnOf(t, last.call.s, "get_value") /\ last.result = RThrow(ErrBrokenPromise))

\* The same as long as no two threads are blocked in cv_.wait on s together.
C2_SingleReader ==
  \A t \in Threads :
    (InGet(t, call[t].s) /\ abandoned[call[t].s] /\ ~crowd[call[t].s])
      ~> \/ ReturnOf(t, last.call.s, "get_value") /\ last.result = RThrow(ErrBrokenPromise)
         \/ InGet(t, call[t].s) /\ crowd[call[t].s]

\* C3: no missed wake-up with a single waiter.  Under fair scheduling a thread
\* inside get or wait on a SharedState that is ready, and on which no two
\* threads have been blocked in cv_.wait together, returns from that call.
C3_NoMissedWakeup ==
  \A t \in Threads :
    (InRead(t, call[t].s) /\ ready_[call[t].s] /\ ~crowd[call[t].s])
      ~> (last.thread = t /\ (ReturnedFrom("get_value") \/ ReturnedFrom("wait")))

\* A get that was suspended in cv_.wait, alone, has returned.
C3_Witness ==
  /\ ReturnedFrom("get_value")
  /\ last.call.blocked
  /\ ~crowd[last.call.s]

\* C4: blocking safety.  get and wait return only when ready_ is true, and an
\* is_ready that returns after a get or wait on the same state has returned
\* gives true.
C4_BlockingSafety ==
  /\ (ReturnedFrom("get_value") \/ ReturnedFrom("wait")) => ready_[last.call.s]
  /\ (ReturnedFrom("is_ready") /\ reads[last.call.s] > 0) => last.result = RBool(TRUE)

\* is_ready on a future returns true after a get or wait on its state has returned.
C4_Witness ==
  /\ ReturnedFrom("is_ready")
  /\ last.call.caller = "future"
  /\ reads[last.call.s] > 0
  /\ last.result = RBool(TRUE)

\* The step returns from a call of one of `names` made on a promise that was
\* the source of a move (onto another object) and has not been assigned since.
OnMovedFrom(names) ==
  /\ last'.thread # NoThread
  /\ last'.call.handle \in Promises
  /\ moved_from[last'.call.handle]
  /\ last'.call.name \in names

\* The step is a move from one promise to another one.
IsMove ==
  /\ last'.call.name \in {"MyPromise&&", "operator="}
  /\ last'.call.other # last'.call.handle

\* Moved-from inertness, with `err` as what get_future throws on the source.
MovedFromStep(err) ==
  /\ OnMovedFrom({"set_value", "set_exception"}) =>
       /\ last'.result = RThrow(ErrPromiseNoState)
       /\ UNCHANGED << ss_vars, promise_vars, future_vars >>
  /\ OnMovedFrom({"get_future"}) =>
       /\ last'.result = RThrow(err)
       /\ UNCHANGED << ss_vars, promise_vars, future_vars >>
  /\ IsMove =>
       /\ promise_state_'[last'.call.handle] = promise_state_[last'.call.other]
       /\ future_retrieved_'[last'.call.handle] = future_retrieved_[last'.call.other]
       /\ promise_state_'[last'.call.other] = NoState
       /\ UNCHANGED ss_vars

\* C5 as stated: moved-from inertness.  After a promise has been the source of
\* a move, set_value, set_exception and get_future on it all throw "Promise
\* has no state" and change nothing; the destination holds the source's state
\* and future_retrieved_ flag.
C5_MovedFromInert == [][MovedFromStep(ErrPromiseNoState)]_vars

\* C5 as amended: the same, except that get_future on the source throws
\* "Future already retrieved or no state", the error of a second get_future.
C5_MovedFromInertAmended == [][MovedFromStep(ErrRetrievedOrNoState)]_vars

\* get_future has been refused on a promise that was moved from.
C5_Witness ==
  /\ last.call.name = "get_future"
  /\ moved_from[last.call.handle]
  /\ last.result = RThrow(ErrRetrievedOrNoState)

\* C6: failure propagation is verbatim.  When the first write on a SharedState
\* is set_exception(e), every get on it throws exactly e.
C6_FailureVerbatim ==
  (ReturnedFrom("get_value") /\ writes[last.call.s] # << >>
     /\ writes[last.call.s][1].name = "set_exception")
    => last.result = RThrow(writes[last.call.s][1].exc)

\* A step of thread t inside MyFuture::get, from the call to its return.
GetStep(t) ==
  /\ call[t].name = "get_value" \/ call'[t].name = "get_value"
  /\ pc'[t] # pc[t] \/ call'[t] # call[t]

\* C7: repeated read is idempotent.  After a successful set_value(v) every get
\* returns v, and no step of a get changes value_, exception_ptr_, ready_ or
\* the state_ of any future (valid() stays true).
C7_RepeatedRead ==
  /\ [](ReturnedFrom("get_value") /\ writes[last.call.s] # << >>
          /\ writes[last.call.s][1].name = "set_value"
        => last.result = RValue(writes[last.call.s][1].val[1]))
  /\ [][\A t \in Threads :
          GetStep(t) => UNCHANGED << value_, exception_ptr_, ready_, future_vars >>]_vars

\* A second get on the same future has returned the written value.
C7_Witness ==
  /\ ReturnedFrom("get_value")
  /\ reads[last.call.s] >= 2
  /\ last.result.kind = "value"
  /\ future_state_[last.call.handle] = last.call.s

\* C8: at most one future per SharedState.  get_future succeeds at most once
\* for a SharedState, whichever promise holds it after moves; every other
\* call throws "Future already retrieved or no state" and returns no future.
C8_OneFuturePerState ==
  /\ \A s \in States : issued[s] <= 1
  /\ last.call.name = "get_future" =>
       \/ /\ last.result = RFuture
          /\ last.call.s \in States
          /\ issued[last.call.s] = 1
       \/ last.result = RThrow(ErrRetrievedOrNoState)

\* get_future has been refused on the promise a state with an issued future
\* was moved to.
C8_Witness ==
  /\ last.call.name = "get_future"
  /\ last.call.s \in States
  /\ last.call.handle = "p2"
  /\ last.result = RThrow(ErrRetrievedOrNoState)

\* C9: state invariant.  ready_ holds exactly when one, and only one, of
\* value_ and exception_ptr_ is set, whatever the setters were given, so
\* get_value never throws its "Internal error".
C9_StateInvariant ==
  /\ \A s \in States :
       ready_[s] <=> ((value_[s] # nullopt) # (exception_ptr_[s] # NullPtr))
  /\ ReturnedFrom("get_value") => last.result # RThrow(ErrInternal)

\* A SharedState nothing has been written to.
Pending(s) == ~ready_[s] /\ value_[s] = nullopt /\ exception_ptr_[s] = NullPtr

\* Thread t is in the critical section of write `name` on s, and the step
\* stores that write's argument and nothing else.
Writes(t, s, name) ==
  /\ pc[t] = "cs" /\ call[t].s = s /\ call[t].name = name
  /\ ready_'[s]
  /\ value_'[s] = ValueAfter(call[t])
  /\ exception_ptr_'[s] = ExceptionAfter(call[t])

\* C10: terminal states.  Every SharedState starts pending; value_,
\* exception_ptr_ and ready_ change only in a step of set_value or
\* set_exception (the destructor's included) that finds the state pending and
\* leaves it ready with its argument stored; once ready, they never change.
C10_TerminalStates ==
  /\ \A s \in States : Pending(s)
  /\ [][\A s \in States :
          << value_[s], exception_ptr_[s], ready_[s] >>'
              # << value_[s], exception_ptr_[s], ready_[s] >>
          => /\ Pending(s)
             /\ \E t \in Threads : Writes(t, s, "set_value") \/ Writes(t, s, "set_exception")]_vars

\* A destructor has run on a state that had been written to.
C10_Witness ==
  /\ last.call.name = "~MyPromise"
  /\ last.call.s \in States
  /\ writes[last.call.s] # << >>
  /\ writes[last.call.s][1].caller = "promise"
  /\ ready_[last.call.s]

\* Thread t is inside SharedState::set_value or set_exception on s.
InWrite(t, s) ==
  pc[t] # "idle" /\ call[t].name \in {"set_value", "set_exception"} /\ call[t].s = s

\* The step is the one in which thread t leaves the critical section of a write.
WriteDecided(t) == InWrite(t, call[t].s) /\ pc[t] = "cs" /\ pc'[t] # "cs"

\* What the caller of MyPromise::set_value / set_exception gets back from the step.
WriteResult(t, r) == call[t].caller = "promise" => last' = Returned(t, call[t], r)

\* C11: concurrent writers.  Of the writes that threads make concurrently on one
\* SharedState, the one that leaves its critical section first succeeds and
\* stores its own argument in one member and nothing in the other; each of the
\* others throws "Promise already satisfied" and changes nothing.
C11_ConcurrentWriters ==
  [][\A t \in Threads :
       WriteDecided(t) =>
         LET s == call[t].s IN
           IF writes[s] = << >>
           THEN /\ writes'[s] = << call[t] >>
                /\ ready_'[s]
                /\ value_'[s] = ValueAfter(call[t])
                /\ exception_ptr_'[s] = ExceptionAfter(call[t])
                /\ WriteResult(t, RVoid)
           ELSE /\ UNCHANGED << writes, value_, exception_ptr_, ready_ >>
                /\ WriteResult(t, RThrow(ErrAlreadySatisfied))]_vars

\* A write has succeeded while another thread, which called a write on the same
\* SharedState in the meantime, is waiting for the mutex.
C11_Witness ==
  /\ last.call.name \in {"set_value", "set_exception"}
  /\ last.call.s \in States
  /\ last.result = RVoid
  /\ \E u \in Threads \ {last.thread} : InWrite(u, last.call.s) /\ pc[u] = "lock"

\* The step is one of ~MyPromise run by thread t, from its call to its return.
DtorStep(t) ==
  /\ call[t].caller = "dtor" \/ call'[t].caller = "dtor"
  /\ pc'[t] # pc[t] \/ call'[t] # call[t]

\* The SharedState the destructor run by t works on.
DtorState(t) == IF call[t].caller = "dtor" THEN call[t].s ELSE call'[t].s

\* No promise holds SharedState s any more.
Released(s) == s <= allocated /\ \A p \in Promises : promise_state_[p] # s

\* C12: destruction after a write is harmless.  A ~MyPromise that runs on a
\* SharedState a write has succeeded on does not call set_exception, changes
\* none of value_, exception_ptr_, ready_, wakes nobody, returns normally and
\* leaves every future its state; a get on the state after its promise is gone
\* returns the written value or throws the written exception, never "Broken
\* promise" and never "Future has no associated state".
C12_DestroyAfterWrite ==
  /\ [][\A t \in Threads :
          (DtorStep(t) /\ DtorState(t) \in States /\ writes[DtorState(t)] # << >>) =>
            /\ UNCHANGED << value_, exception_ptr_, ready_, cv_, writes, future_vars >>
            /\ call'[t].name # "set_exception"
            /\ pc'[t] = "idle" => last'.result = RVoid]_vars
  /\ [](ReturnedFrom("get_value") /\ Released(last.call.s)
          /\ writes[last.call.s] # << >> /\ writes[last.call.s][1].caller = "promise"
        => LET first == writes[last.call.s][1] IN
             /\ first.name = "set_value" => last.result = RValue(first.val[1])
             /\ first.exc # NullPtr => last.result = RThrow(first.exc)
             /\ last.result \notin {RThrow(ErrBrokenPromise), RThrow(ErrFutureNoState)})

\* A get has returned the outcome written through a promise that was then
\* destroyed while it held the state.
C12_Witness ==
  /\ ReturnedFrom("get_value")
  /\ Released(last.call.s)
  /\ writes[last.call.s] # << >>
  /\ writes[last.call.s][1].caller = "promise"
  /\ promise_life[writes[last.call.s][1].handle] = "dead"
  /\ ~moved_from[writes[last.call.s][1].handle]

\* C13: no stranded reader.  Whatever the promises have been through (get_future,
\* moves, move-assignment over a promise, writes, destruction), a SharedState a
\* future was issued for and that no promise holds any more is ready.
C13_NoStrandedReader ==
  \A s \in States : (issued[s] > 0 /\ Released(s)) => ready_[s]

\* C14: all waiters are released.  Under fair scheduling, when two or more
\* threads have been blocked together in get or wait on a SharedState and a
\* set_value or set_exception made through the promise has made it ready, each
\* of the blocked threads returns from its call.
C14_AllWaitersReleased ==
  \A t \in Threads :
    (/\ InRead(t, call[t].s) /\ call[t].blocked
     /\ crowd[call[t].s] /\ ready_[call[t].s]
     /\ writes[call[t].s][1].caller = "promise")
      ~> (last.thread = t /\ (ReturnedFrom("get_value") \/ ReturnedFrom("wait")))

\* The step is one of ~MyPromise run by thread t on promise p: its call, a
\* step inside it, or its return.
DtorOn(t, p) ==
  \/ call'[t].caller = "dtor" /\ call'[t].handle = p /\ call'[t] # call[t]
  \/ call[t].caller = "dtor" /\ call[t].handle = p /\ pc'[t] # pc[t]
  \/ last'.thread = t /\ last'.call.caller = "dtor" /\ last'.call.handle = p

\* Some promise that was the source of a move has been destroyed.
SourceDestroyed == \E q \in Promises : promise_life[q] = "dead" /\ moved_from[q]

\* C15: destroying a moved-from promise has no effect.  ~MyPromise on a promise
\* that was the source of a move returns at once, without calling
\* set_exception, and changes no SharedState and no future, whether or not a
\* future had been issued; "Broken promise" is never written by the destructor
\* of such a promise; and after it a set_value(v) that is the first write
\* succeeds and get returns v.
C15_EmptyDestruction ==
  /\ [][\A t \in Threads, p \in Promises :
          (DtorOn(t, p) /\ moved_from[p]) =>
            /\ UNCHANGED << ss_vars, writes, future_vars, abandoned >>
            /\ last' = Returned(t, Call("~MyPromise", "dtor", p, NoState, nullopt, NullPtr),
                                RVoid)]_vars
  /\ [](\A s \in States :
          (writes[s] # << >> /\ writes[s][1].caller = "dtor") => ~moved_from[writes[s][1].handle])
  /\ [](SourceDestroyed /\ last.call.name = "set_value" /\ last.call.s \in States
          /\ ~rejected[last.call.s] /\ Len(writes[last.call.s]) = 1
          /\ writes[last.call.s][1].caller = "promise"
        => last.result = RVoid)
  /\ [](SourceDestroyed /\ ReturnedFrom("get_value") /\ writes[last.call.s] # << >>
          /\ writes[last.call.s][1].name = "set_value"
        => last.result = RValue(writes[last.call.s][1].val[1]))

\* With a future issued, the promise moved and the source destroyed, a
\* set_value through the destination has succeeded and get has returned its value.
C15_Witness ==
  /\ ReturnedFrom("get_value")
  /\ last.result.kind = "value"
  /\ issued[last.call.s] = 1
  /\ \E q \in Promises \ {writes[last.call.s][1].handle} :
       promise_life[q] = "dead" /\ moved_from[q]

\* Thread t takes a step inside get_value, is_ready or wait on a SharedState.
ObserverStep(t) ==
  /\ call[t].name \in {"get_value", "is_ready", "wait"}
  /\ pc'[t] # pc[t]

\* A thread is in the critical section of a write on s.
WriterIn(s) == \E t \in Threads : InWrite(t, s) /\ pc[t] = "cs"

\* C16: observers do not mutate.  No step of get_value, is_ready or wait changes
\* value_, exception_ptr_ or ready_ or takes a thread out of the waiters of
\* cv_; these members change, and waiters are notified, only in the critical
\* section of set_value or set_exception (a waiter may also wake spuriously);
\* and is_ready never suspends: it returns the ready_ it finds, false on a
\* state nothing was written to.
C16_ObserversDoNotMutate ==
  [][/\ \A t \in Threads :
          ObserverStep(t) =>
            /\ UNCHANGED << value_, exception_ptr_, ready_, writes >>
            /\ \A s \in States : cv_[s] \subseteq cv_'[s]
     /\ \A s \in States :
          /\ << value_[s], exception_ptr_[s], ready_[s] >>'
               # << value_[s], exception_ptr_[s], ready_[s] >> => WriterIn(s)
          /\ ~(cv_[s] \subseteq cv_'[s]) => WriterIn(s) \/ UNCHANGED << pc, call, mutex_ >>
     /\ \A t \in Threads :
          (pc[t] = "cs" /\ call[t].name = "is_ready" /\ pc'[t] # "cs") =>
            /\ pc'[t] # "wait"
            /\ call[t].caller = "future" =>
                 last' = Returned(t, call[t], RBool(writes[call[t].s] # << >>))]_vars

\* is_ready has returned false on a future while another thread is suspended
\* in get or wait on the same state, and that thread is still among the waiters.
C16_Witness ==
  /\ ReturnedFrom("is_ready")
  /\ last.call.caller = "future"
  /\ last.result = RBool(FALSE)
  /\ \E u \in Threads : InRead(u, last.call.s) /\ pc[u] = "wait" /\ u \in cv_[last.call.s]

\* The threads inside the critical section of SharedState s.
InCriticalSection(s) == { t \in Threads : pc[t] = "cs" /\ call[t].s = s }

\* Some thread is suspended in cv_.wait on s.
ReaderSuspended(s) == \E u \in Threads : InRead(u, s) /\ pc[u] = "wait"

\* C17: mutual exclusion.  At most one thread is inside the critical section of
\* a SharedState, and it is the holder of mutex_; a thread suspended in
\* cv_.wait does not hold mutex_, so the mutex is held only by a thread that
\* is running its critical section; and under fair scheduling a set_value or
\* set_exception called while a reader is suspended runs to its end.
C17_MutualExclusion ==
  /\ [](\A s \in States :
          /\ Cardinality(InCriticalSection(s)) <= 1
          /\ InCriticalSection(s) = {mutex_[s]} \ {NoThread}
          /\ \A t \in Threads : (pc[t] = "wait" /\ call[t].s = s) => mutex_[s] # t)
  /\ \A t \in Threads :
       (InWrite(t, call[t].s) /\ ReaderSuspended(call[t].s)) ~> pc[t] = "idle"

\* A write has run to its end while a reader was suspended in cv_.wait.
C17_Witness ==
  /\ last.call.name \in {"set_value", "set_exception"}
  /\ last.call.s \in States
  /\ last.result = RVoid
  /\ \E u \in Threads : InRead(u, last.call.s) /\ pc[u] = "wait" /\ call[u].blocked

\* The last step was the return of `name` called on a future that holds no SharedState.
OnEmptyFuture(name) ==
  last.call.caller = "future" /\ last.call.name = name /\ last.call.s = NoState

\* The operations of a future without a SharedState, with `polled` as what
\* is_ready gives: get and wait throw "Future has no associated state", no
\* thread is ever inside a SharedState function without a SharedState (the
\* calls return at once), and valid returns whether state_ is set.
EmptyFuture(polled) ==
  /\ OnEmptyFuture("get_value") => last.result = RThrow(ErrFutureNoState)
  /\ OnEmptyFuture("wait") => last.result = RThrow(ErrFutureNoState)
  /\ OnEmptyFuture("is_ready") => last.result = polled
  /\ \A t \in Threads : pc[t] # "idle" => call[t].s \in States
  /\ (last.call.name = "valid" /\ last.thread # NoThread) =>
       /\ last.result = RBool(future_state_[last.call.handle] # NoState)
       /\ last.call.s = future_state_[last.call.handle]

\* C18 as stated: get, wait and is_ready on a future that holds no SharedState
\* all throw "Future has no associated state" without blocking, and valid
\* returns true exactly when a SharedState is held.
C18_EmptyFuture == EmptyFuture(RThrow(ErrFutureNoState))

\* C18 as amended: the same, except that is_ready on such a future returns false.
C18_EmptyFutureAmended == EmptyFuture(RBool(FALSE))

\* is_ready has returned false on a future that holds no SharedState.
C18_Witness ==
  /\ OnEmptyFuture("is_ready")
  /\ future_life[last.call.handle] = "live"
  /\ last.result = RBool(FALSE)

====
